---- MODULE Spec2Model ----
(***************************************************************************)
(* IMDb List Bulk Uploader (imdb-list-bulk-uploader.user.js).              *)
(*                                                                         *)
(* The model covers the CSV line parser (parseInput, parseLine,            *)
(* splitCSVLine), the GraphQL client (addItemToList, updateDescription),   *)
(* the sequential orchestrator (processItems) and the two button handlers  *)
(* of injectUI that drive it (Start, Cancel).                              *)
(*                                                                         *)
(* JavaScript strings are sequences of one-character strings, so that      *)
(* trimming, splitting and matching are computed character by character.   *)
(* A nullable value is a sequence of length at most one: Null is <<>> and  *)
(* Some(x) is <<x>>.                                                       *)
(***************************************************************************)
EXTENDS Integers, Sequences, FiniteSets, TLC

Null == <<>>

Some(x) == <<x>>

(***************************************************************************)
(* String helpers (String.prototype.trim, toLowerCase, startsWith).        *)
(***************************************************************************)
IsSpace(c) == c \in {" ", "\t", "\n", "\r"}

RECURSIVE TrimStart(_)
TrimStart(s) ==
  IF s # <<>> /\ IsSpace(Head(s)) THEN TrimStart(Tail(s)) ELSE s

RECURSIVE TrimEnd(_)
TrimEnd(s) ==
  IF s # <<>> /\ IsSpace(s[Len(s)]) THEN TrimEnd(SubSeq(s, 1, Len(s) - 1)) ELSE s

trim(s) == TrimEnd(TrimStart(s))

LowerChar(c) ==
  CASE c = "I" -> "i"
    [] c = "D" -> "d"
    [] c = "T" -> "t"
    [] c = "E" -> "e"
    [] OTHER -> c

toLowerCase(s) == [k \in 1..Len(s) |-> LowerChar(s[k])]

startsWith(s, p) == Len(s) >= Len(p) /\ SubSeq(s, 1, Len(p)) = p

IsDigit(c) == c \in {"0", "1", "2", "3", "4", "5", "6", "7", "8", "9"}

(***************************************************************************)
(* getListId: window.location.pathname.match(/(ls\d+)/), the leftmost      *)
(* "ls" followed by at least one digit, with the digits taken greedily.    *)
(***************************************************************************)
RECURSIVE DigitsEnd(_, _)
DigitsEnd(s, k) ==
  IF k + 1 <= Len(s) /\ IsDigit(s[k + 1]) THEN DigitsEnd(s, k + 1) ELSE k

MatchListIdAt(s, p) ==
  /\ p + 2 <= Len(s)
  /\ s[p] = "l"
  /\ s[p + 1] = "s"
  /\ IsDigit(s[p + 2])

getListId(path) ==
  LET starts == {p \in 1..Len(path) : MatchListIdAt(path, p)}
  IN  IF starts = {} THEN Null
      ELSE LET p == CHOOSE q \in starts : \A r \in starts : q <= r
           IN  Some(SubSeq(path, p, DigitsEnd(path, p + 2)))

(***************************************************************************)
(* CSV parsing.                                                            *)
(***************************************************************************)
\* raw.split(/\r?\n/): a line feed, with the carriage return right before it
\* when there is one, separates two lines.
RECURSIVE SplitLinesFrom(_, _, _, _)
SplitLinesFrom(s, k, cur, acc) ==
  IF k > Len(s) THEN Append(acc, cur)
  ELSE IF s[k] = "\n" THEN SplitLinesFrom(s, k + 1, <<>>, Append(acc, cur))
  ELSE IF s[k] = "\r" /\ k < Len(s) /\ s[k + 1] = "\n"
       THEN SplitLinesFrom(s, k + 2, <<>>, Append(acc, cur))
  ELSE SplitLinesFrom(s, k + 1, Append(cur, s[k]), acc)

\* SplitLines taking only a carriage return with a line feed as a separator.
RECURSIVE SplitCRLFFrom(_, _, _, _)
SplitCRLFFrom(s, k, cur, acc) ==
  IF k > Len(s) THEN Append(acc, cur)
  ELSE IF s[k] = "\r" /\ k < Len(s) /\ s[k + 1] = "\n"
       THEN SplitCRLFFrom(s, k + 2, <<>>, Append(acc, cur))
  ELSE SplitCRLFFrom(s, k + 1, Append(cur, s[k]), acc)

SplitLines_CRLFOnly(raw) == SplitCRLFFrom(raw, 1, <<>>, <<>>)

SplitLines(raw) == SplitLinesFrom(raw, 1, <<>>, <<>>)

\* SplitCSVFrom without the escape: every double quote toggles inQuotes.
RECURSIVE SplitCSVFrom_NoEscape(_, _, _, _, _)
SplitCSVFrom_NoEscape(line, k, current, inQuotes, fields) ==
  IF k > Len(line) THEN Append(fields, current)
  ELSE IF line[k] = "\""
       THEN SplitCSVFrom_NoEscape(line, k + 1, current, ~inQuotes, fields)
  ELSE IF line[k] = "," /\ ~inQuotes
       THEN SplitCSVFrom_NoEscape(line, k + 1, <<>>, inQuotes, Append(fields, current))
  ELSE SplitCSVFrom_NoEscape(line, k + 1, Append(current, line[k]), inQuotes, fields)

\* The loop of splitCSVLine: k is the index i of the source plus one.
RECURSIVE SplitCSVFrom(_, _, _, _, _)
SplitCSVFrom(line, k, current, inQuotes, fields) ==
  IF k > Len(line) THEN Append(fields, current)
  ELSE IF line[k] = "\""
       THEN IF inQuotes /\ k + 1 <= Len(line) /\ line[k + 1] = "\""
            THEN SplitCSVFrom(line, k + 2, Append(current, "\""), inQuotes, fields)
            ELSE SplitCSVFrom(line, k + 1, current, ~inQuotes, fields)
  ELSE IF line[k] = "," /\ ~inQuotes
       THEN SplitCSVFrom(line, k + 1, <<>>, inQuotes, Append(fields, current))
  ELSE SplitCSVFrom(line, k + 1, Append(current, line[k]), inQuotes, fields)

splitCSVLine(line) == SplitCSVFrom(line, 1, <<>>, FALSE, <<>>)

\* parseLine without the test of the id.
parseLine_KeepsEmptyId(line) ==
  LET fields == splitCSVLine(line)
  IN  Some([id |-> trim(fields[1]),
            description |-> IF Len(fields) > 1 THEN trim(fields[2]) ELSE <<>>])

\* parseLine taking the description from the last field.
parseLine_LastFieldAsDescription(line) ==
  LET fields == splitCSVLine(line)
      id == trim(fields[1])
  IN  IF id = <<>> THEN Null
      ELSE Some([id |-> id,
                 description |-> IF Len(fields) > 1 THEN trim(fields[Len(fields)])
                                 ELSE <<>>])

\* Null for an invalid line, Some({id, description}) otherwise.
parseLine(line) ==
  LET fields == splitCSVLine(line)
      id == trim(fields[1])
  IN  IF id = <<>> THEN Null
      ELSE Some([id |-> id,
                 description |-> IF Len(fields) > 1 THEN trim(fields[2]) ELSE <<>>])

RECURSIVE KeepNonEmpty(_)
KeepNonEmpty(ls) ==
  IF ls = <<>> THEN <<>>
  ELSE IF Head(ls) = <<>> THEN KeepNonEmpty(Tail(ls))
  ELSE <<Head(ls)>> \o KeepNonEmpty(Tail(ls))

\* ParseLines dropping a line whose id an earlier line already had.
RECURSIVE ParseLines_Unique(_)
ParseLines_Unique(ls) ==
  IF ls = <<>> THEN <<>>
  ELSE LET rest == ParseLines_Unique(SubSeq(ls, 1, Len(ls) - 1))
           e == parseLine(ls[Len(ls)])
       IN  IF e # Null /\ \E k \in 1..Len(rest) : rest[k].id = e[1].id THEN rest
           ELSE rest \o e

RECURSIVE ParseLines(_)
ParseLines(ls) ==
  IF ls = <<>> THEN <<>> ELSE parseLine(Head(ls)) \o ParseLines(Tail(ls))

\* parseInput comparing the first line with the header as it is written.
parseInput_CaseSensitiveHeader(raw) ==
  LET split == SplitLines(raw)
      lines == KeepNonEmpty([k \in 1..Len(split) |-> trim(split[k])])
  IN  IF Len(lines) = 0 THEN <<>>
      ELSE LET firstLine == lines[1]
               hasHeader ==
                 \/ firstLine = <<"i", "d">>
                 \/ firstLine = <<"i", "d", ",", "d", "e", "s", "c", "r", "i", "p",
                                  "t", "i", "o", "n">>
                 \/ startsWith(firstLine, <<"i", "d", ",">>)
               dataLines == IF hasHeader THEN Tail(lines) ELSE lines
           IN  ParseLines(dataLines)

parseInput(raw) ==
  LET split == SplitLines(raw)
      lines == KeepNonEmpty([k \in 1..Len(split) |-> trim(split[k])])
  IN  IF Len(lines) = 0 THEN <<>>
      ELSE LET firstLine == toLowerCase(lines[1])
               hasHeader ==
                 \/ firstLine = <<"i", "d">>
                 \/ firstLine = <<"i", "d", ",", "d", "e", "s", "c", "r", "i", "p",
                                  "t", "i", "o", "n">>
                 \/ startsWith(firstLine, <<"i", "d", ",">>)
               dataLines == IF hasHeader THEN Tail(lines) ELSE lines
           IN  ParseLines(dataLines)

(***************************************************************************)
(* Remote service responses.  A response is what fetch() and res.json()    *)
(* deliver for one GraphQL request:                                        *)
(*   fetched    fetch() resolved (FALSE: it rejected with `reason`)        *)
(*   ok, status, statusText   the Response fields read at lines 170-171    *)
(*   errors     json.errors, a sequence of messages (<<>> when absent)     *)
(*   hasData    json.data.<operation> can be read                          *)
(*   item       json.data.addItemToList.modifiedItem, Null or Some(record) *)
(* A modifiedItem record holds itemId, titleText and nameText, each <<>>   *)
(* when the response does not carry it.                                    *)
(***************************************************************************)
Response(fetched, ok, status, statusText, errors, hasData, item) ==
  [fetched |-> fetched, reason |-> <<"Failed to fetch">>, ok |-> ok,
   status |-> status, statusText |-> statusText, errors |-> errors,
   hasData |-> hasData, item |-> item]

ModifiedItem(itemId, titleText, nameText) ==
  [itemId |-> itemId, titleText |-> titleText, nameText |-> nameText]

RespReject == Response(FALSE, FALSE, <<>>, <<>>, <<>>, FALSE, Null)

RespHttp500 ==
  Response(TRUE, FALSE, <<"500">>, <<"Internal Server Error">>, <<>>, FALSE, Null)

RespHttp429 ==
  Response(TRUE, FALSE, <<"429">>, <<"Too Many Requests">>, <<>>, FALSE, Null)

RespApiErrors ==
  Response(TRUE, TRUE, <<"200">>, <<"OK">>,
           << <<"Invalid const">>, <<"Not authorized">> >>, FALSE, Null)

RespApiError ==
  Response(TRUE, TRUE, <<"200">>, <<"OK">>, << <<"Item not found">> >>, FALSE, Null)

RespNoData == Response(TRUE, TRUE, <<"200">>, <<"OK">>, <<>>, FALSE, Null)

RespOk(item) == Response(TRUE, TRUE, <<"200">>, <<"OK">>, <<>>, TRUE, item)

RespAddedNull == RespOk(Null)

RespAddedTitle ==
  RespOk(Some(ModifiedItem(<<"l", "i", "1">>, <<"H", "e", "a", "t">>, <<>>)))

RespAddedName ==
  RespOk(Some(ModifiedItem(<<"l", "i", "2">>, <<>>, <<"A", "l">>)))

RespAddedNoItemId == RespOk(Some(ModifiedItem(<<>>, <<"H", "e", "a", "t">>, <<>>)))

RespEdited == RespOk(Null)

\* err.message of the Error thrown at lines 171 and 195 (the dash of the
\* template is written "-" here).
HttpMessage(resp) == <<"HTTP ">> \o resp.status \o <<" - ">> \o resp.statusText

\* json.errors.map((e) => e.message).join("; ")
RECURSIVE JoinMessages(_)
JoinMessages(errors) ==
  IF errors = <<>> THEN <<>>
  ELSE IF Len(errors) = 1 THEN Head(errors)
  ELSE Head(errors) \o <<"; ">> \o JoinMessages(Tail(errors))

Threw(message) == [threw |-> TRUE, message |-> message, value |-> Null]

Returned(value) == [threw |-> FALSE, message |-> <<>>, value |-> value]

\* The outcome of `await addItemToList(listId, constId)` for a response: the
\* modifiedItem it returns or the error it throws.
addItemToList(resp) ==
  IF ~resp.fetched THEN Threw(resp.reason)
  ELSE IF ~resp.ok THEN Threw(HttpMessage(resp))
  ELSE IF Len(resp.errors) > 0 THEN Threw(JoinMessages(resp.errors))
  ELSE IF ~resp.hasData THEN Threw(<<"TypeError">>)
  ELSE Returned(resp.item)

\* The outcome of `await updateDescription(listId, itemId, description)`.
updateDescription(resp) ==
  IF ~resp.fetched THEN Threw(resp.reason)
  ELSE IF ~resp.ok THEN Threw(HttpMessage(resp))
  ELSE IF Len(resp.errors) > 0 THEN Threw(JoinMessages(resp.errors))
  ELSE IF ~resp.hasData THEN Threw(<<"TypeError">>)
  ELSE Returned(Null)

(***************************************************************************)
(* processItems.  A run record holds the locals of one invocation of the   *)
(* Start handler and of the processItems call it makes:                    *)
(*   pc       where the invocation is suspended: "idle" (no invocation),   *)
(*            "reading" (await file.text()), "add" (await addItemToList),  *)
(*            "edit" (await updateDescription), "sleep" (await sleep),     *)
(*            "returned"/"threw" (processItems settled), "done" (handler   *)
(*            finished)                                                    *)
(*   raw, items, useDelay, delayMs, listId, i, status, results             *)
(*            the locals of the source; status is Null between items       *)
(*   calls    the requests sent and not yet answered                       *)
(*   out      the summary line the handler logged at lines 554-559         *)
(*   log      history of the run: every request sent ("add", "edit"), the  *)
(*            answer to each ("added", "edited"), every onProgress call    *)
(*            ("progress"), every sleep, and the first set ("cancel") and  *)
(*            first reset ("reset") of `aborted` during the run            *)
(***************************************************************************)
IdleRun ==
  [pc |-> "idle", raw |-> <<>>, items |-> <<>>, useDelay |-> FALSE, delayMs |-> 0,
   listId |-> Null, i |-> 0, status |-> Null, results |-> <<>>, calls |-> {},
   out |-> "none", log |-> <<>>]

Event(op, pos, arg) == [op |-> op, pos |-> pos, arg |-> arg]

\* MUTATIONS, lines 29-55: the operations the script can ask of the service,
\* AddConstToList ("add") and EditListItemDescription ("edit").
Mutations == {"add", "edit"}

Call(op, pos) == [op |-> op, pos |-> pos]

\* Lines 233-239.
NewStatus(item, i) ==
  [id |-> item.id, index |-> i, ok |-> FALSE, error |-> Null, title |-> <<>>]

\* TitleOf without the fallback to the item's id.
TitleOf_NoFallback(added, item) ==
  IF added # Null /\ added[1].titleText # <<>> THEN added[1].titleText
  ELSE IF added # Null THEN added[1].nameText
  ELSE <<>>

\* Lines 244-246: titleNode?.titleText?.text || titleNode?.nameText?.text || item.id
TitleOf(added, item) ==
  IF added # Null /\ added[1].titleText # <<>> THEN added[1].titleText
  ELSE IF added # Null /\ added[1].nameText # <<>> THEN added[1].nameText
  ELSE item.id

\* ShouldUpdateDescription without the test of item.description.
ShouldUpdateDescription_IgnoresDescription(added, item) ==
  /\ added # Null
  /\ added[1].itemId # <<>>

\* Lines 249-251: a description is provided and the response carries an itemId.
ShouldUpdateDescription(added, item) ==
  /\ item.description # <<>>
  /\ added # Null
  /\ added[1].itemId # <<>>

\* Line 252: the arguments of updateDescription.
DescriptionArgs(r, added, item) == <<r.listId[1], added[1].itemId, item.description>>

\* ShouldDelay without the test for the last item.
ShouldDelay_AfterLast(r, ab) == r.useDelay /\ ~ab

\* Line 265.
ShouldDelay(r, ab) == r.useDelay /\ r.i < Len(r.items) - 1 /\ ~ab

\* Line 243: send AddConstToList for items[i] and suspend.
SendAdd(r) ==
  LET item == r.items[r.i + 1]
  IN  [r EXCEPT !.pc = "add",
                !.status = Some(NewStatus(item, r.i)),
                !.calls = @ \cup {Call("add", r.i)},
                !.log = Append(@, Event("add", r.i, <<r.listId[1], item.id>>))]

\* LoopHead with the loop bound off by one.
LoopHead_SkipsLast(r, ab) ==
  IF r.i >= Len(r.items) - 1 \/ ab THEN [r EXCEPT !.pc = "returned"]
  ELSE SendAdd(r)

\* Lines 229-230, at the top of iteration r.i: leave the loop when the items
\* are exhausted or getAborted() is true, else start the item.
LoopHead(r, ab) ==
  IF r.i >= Len(r.items) \/ ab THEN [r EXCEPT !.pc = "returned"]
  ELSE SendAdd(r)

\* FinishItem reporting the index of the item as the number done.
FinishItem_ReportsIndex(r, ab) ==
  LET r1 == [r EXCEPT !.results = Append(@, r.status[1]),
                      !.status = Null,
                      !.log = Append(@, Event("progress", r.i,
                                 <<r.i, Len(r.items), r.status[1]>>))]
  IN  IF ShouldDelay(r, ab)
      THEN [r1 EXCEPT !.pc = "sleep",
                      !.log = Append(@, Event("sleep", r.i, <<r.delayMs>>))]
      ELSE LoopHead([r1 EXCEPT !.i = @ + 1], ab)

\* FinishItem leaving the loop after a failed item.
FinishItem_StopsOnError(r, ab) ==
  LET r1 == [r EXCEPT !.results = Append(@, r.status[1]),
                      !.status = Null,
                      !.log = Append(@, Event("progress", r.i,
                                 <<r.i + 1, Len(r.items), r.status[1]>>))]
  IN  IF r.status[1].error # Null THEN [r1 EXCEPT !.pc = "returned"]
      ELSE IF ShouldDelay(r, ab)
      THEN [r1 EXCEPT !.pc = "sleep",
                      !.log = Append(@, Event("sleep", r.i, <<r.delayMs>>))]
      ELSE LoopHead([r1 EXCEPT !.i = @ + 1], ab)

\* FinishItem sending a failed item's AddConstToList a second time.
FinishItem_RetriesOnce(r, ab) ==
  LET r1 == [r EXCEPT !.results = Append(@, r.status[1]),
                      !.status = Null,
                      !.log = Append(@, Event("progress", r.i,
                                 <<r.i + 1, Len(r.items), r.status[1]>>))]
      sent == {k \in 1..Len(r.log) : r.log[k].op = "add" /\ r.log[k].pos = r.i}
  IN  IF r.status[1].error # Null /\ Cardinality(sent) < 2 THEN SendAdd(r)
      ELSE IF ShouldDelay(r, ab)
      THEN [r1 EXCEPT !.pc = "sleep",
                      !.log = Append(@, Event("sleep", r.i, <<r.delayMs>>))]
      ELSE LoopHead([r1 EXCEPT !.i = @ + 1], ab)

\* Lines 261-268: record the status, report it, then sleep or go on.
FinishItem(r, ab) ==
  LET r1 == [r EXCEPT !.results = Append(@, r.status[1]),
                      !.status = Null,
                      !.log = Append(@, Event("progress", r.i,
                                 <<r.i + 1, Len(r.items), r.status[1]>>))]
  IN  IF ShouldDelay(r, ab)
      THEN [r1 EXCEPT !.pc = "sleep",
                      !.log = Append(@, Event("sleep", r.i, <<r.delayMs>>))]
      ELSE LoopHead([r1 EXCEPT !.i = @ + 1], ab)

\* Catch swallowing the error without recording its message.
Catch_KeepsNull(r, message) == r

\* Catch undoing the item's add when a later step of the item failed.
Catch_RollsBack(r, message) ==
  [r EXCEPT !.status[1].error = Some(message),
            !.log = IF r.status[1].title # <<>>
                    THEN Append(@, Event("remove", r.i, <<r.listId[1]>>))
                    ELSE @]

\* Lines 257-259: the catch block.
Catch(r, message) == [r EXCEPT !.status[1].error = Some(message)]

\* Line 256.
MarkOk(r) == [r EXCEPT !.status[1].ok = TRUE]

\* Lines 252-259, resumed when the EditListItemDescription request settles.
AfterEdit(r, resp, ab) ==
  LET res == updateDescription(resp)
      r1 == [r EXCEPT !.calls = @ \ {Call("edit", r.i)},
                      !.log = Append(@, Event("edited", r.i, <<resp>>))]
  IN  IF res.threw THEN FinishItem(Catch(r1, res.message), ab)
      ELSE FinishItem(MarkOk(r1), ab)

\* AfterAdd failing an item whose description cannot be set for want of an
\* itemId.
AfterAdd_FailsWithoutItemId(r, resp, ab) ==
  LET res == addItemToList(resp)
      item == r.items[r.i + 1]
      r1 == [r EXCEPT !.calls = @ \ {Call("add", r.i)},
                      !.log = Append(@, Event("added", r.i, <<resp>>))]
  IN  IF res.threw THEN FinishItem(Catch(r1, res.message), ab)
      ELSE LET added == res.value
               r2 == [r1 EXCEPT !.status[1].title = TitleOf(added, item)]
           IN  IF ShouldUpdateDescription(added, item)
               THEN [r2 EXCEPT !.pc = "edit",
                               !.calls = @ \cup {Call("edit", r.i)},
                               !.log = Append(@, Event("edit", r.i,
                                          DescriptionArgs(r2, added, item)))]
               ELSE IF item.description # <<>>
               THEN FinishItem(Catch(r2, <<"No itemId">>), ab)
               ELSE FinishItem(MarkOk(r2), ab)

\* AfterAdd calling updateDescription without awaiting it.
AfterAdd_NoAwait(r, resp, ab) ==
  LET res == addItemToList(resp)
      item == r.items[r.i + 1]
      r1 == [r EXCEPT !.calls = @ \ {Call("add", r.i)},
                      !.log = Append(@, Event("added", r.i, <<resp>>))]
  IN  IF res.threw THEN FinishItem(Catch(r1, res.message), ab)
      ELSE LET added == res.value
               r2 == [r1 EXCEPT !.status[1].title = TitleOf(added, item)]
           IN  IF ShouldUpdateDescription(added, item)
               THEN FinishItem(MarkOk(
                      [r2 EXCEPT !.calls = @ \cup {Call("edit", r.i)},
                                 !.log = Append(@, Event("edit", r.i,
                                            DescriptionArgs(r2, added, item)))]), ab)
               ELSE FinishItem(MarkOk(r2), ab)

\* Lines 243-259, resumed when the AddConstToList request settles.
AfterAdd(r, resp, ab) ==
  LET res == addItemToList(resp)
      item == r.items[r.i + 1]
      r1 == [r EXCEPT !.calls = @ \ {Call("add", r.i)},
                      !.log = Append(@, Event("added", r.i, <<resp>>))]
  IN  IF res.threw THEN FinishItem(Catch(r1, res.message), ab)
      ELSE LET added == res.value
               r2 == [r1 EXCEPT !.status[1].title = TitleOf(added, item)]
           IN  IF ShouldUpdateDescription(added, item)
               THEN [r2 EXCEPT !.pc = "edit",
                               !.calls = @ \cup {Call("edit", r.i)},
                               !.log = Append(@, Event("edit", r.i,
                                          DescriptionArgs(r2, added, item)))]
               ELSE FinishItem(MarkOk(r2), ab)

\* Lines 266-268, resumed when the timer of sleep(delayMs) fires.
AfterSleep(r, ab) == LoopHead([r EXCEPT !.i = @ + 1], ab)

\* processItems without the test of listId.
processItems_NoListIdCheck(r, path, ab) ==
  LET listId == getListId(path)
  IN  LoopHead([r EXCEPT !.listId = IF listId = Null THEN Some(<<>>) ELSE listId,
                         !.i = 0, !.results = <<>>], ab)

\* Lines 224-229: processItems up to its first await.
processItems(r, path, ab) ==
  LET listId == getListId(path)
  IN  IF listId = Null THEN [r EXCEPT !.pc = "threw"]
      ELSE LoopHead([r EXCEPT !.listId = listId, !.i = 0, !.results = <<>>], ab)

(***************************************************************************)
(* The page: injectUI's state and its Start and Cancel handlers.           *)
(***************************************************************************)
VARIABLES
  pathname,       \* window.location.pathname
  running,        \* line 339
  aborted,        \* line 338
  startDisabled,  \* startBtn.disabled
  cancelHidden,   \* cancelBtn carries the class bu-hidden
  run,            \* the invocations of the Start handler, by slot
  doc,            \* the text handed to the parser, as the rows it is made of
  out             \* the last call of a parser function and what it returned

vars == <<pathname, running, aborted, startDisabled, cancelHidden, run, doc, out>>

\* The variables of the parser on its own, which the page leaves alone.
parser == <<doc, out>>

\* Slots for the invocations of the Start handler that are under way at the
\* same time; a click finds no handler when both are taken.
Handlers == {1, 2}

\* /list/ls12/edit/ and /list/ls/edit (which the @match pattern also covers).
Pathnames ==
  { <<"/", "l", "i", "s", "t", "/", "l", "s", "1", "2", "/", "e", "d", "i", "t", "/">>,
    <<"/", "l", "i", "s", "t", "/", "l", "s", "/", "e", "d", "i", "t">> }

\* DELAY_OPTIONS, lines 22-27.
DelayValues == {5000, 10000, 15000, 30000}

\* delayCheckbox.checked and delaySelect.value as the handler reads them at
\* lines 526-527: the box checked with any option selected, or the box
\* unchecked with the select left at its first option.
DelaySettings ==
  {[useDelay |-> TRUE, delayMs |-> d] : d \in DelayValues}
    \cup {[useDelay |-> FALSE, delayMs |-> 5000]}

Header == <<"i", "d", ",", "d", "e", "s", "c", "r", "i", "p", "t", "i", "o", "n">>

\* tt1,a   nm2,"b,c"   tt3   tt1,a
SampleLines ==
  << <<"t", "t", "1", ",", "a">>,
     <<"n", "m", "2", ",", "\"", "b", ",", "c", "\"">>,
     <<"t", "t", "3">>,
     <<"t", "t", "1", ",", "a">> >>

\* Largest batch the user submits in SpecItems.
MaxItems == 2

RECURSIVE JoinLines(_)
JoinLines(ls) ==
  IF ls = <<>> THEN <<>>
  ELSE IF Len(ls) = 1 THEN Head(ls)
  ELSE Head(ls) \o <<"\n">> \o JoinLines(Tail(ls))

\* The texts the user submits in SpecItems: the header row followed by up to
\* MaxItems consecutive sample lines.
SampleTexts ==
  LET runs == {SubSeq(SampleLines, a, b) :
                 a \in 1..Len(SampleLines), b \in 0..Len(SampleLines)}
  IN  {JoinLines(<<Header>> \o ls) : ls \in {x \in runs : Len(x) <= MaxItems}}

\* The texts the user pastes or uploads in Spec: nothing, a header and one
\* id, and two lines with descriptions.
PageTexts ==
  { <<>>,
    JoinLines(<< <<"i", "d">>, SampleLines[3] >>),
    JoinLines(<<SampleLines[1], SampleLines[2]>>) }

\* The texts the user pastes or uploads in SpecFair: nothing, and a line with
\* a description followed by a line without one.
FairTexts ==
  { <<>>,
    JoinLines(<<SampleLines[1], SampleLines[3]>>) }

\* What the service answers to AddConstToList and to EditListItemDescription.
AddResponses ==
  {RespReject, RespHttp500, RespApiErrors, RespNoData, RespAddedNull,
   RespAddedTitle, RespAddedName, RespAddedNoItemId}

EditResponses == {RespEdited, RespHttp429, RespApiError}

\* The answers followed in Spec.
PageAddResponses == {RespHttp500, RespAddedNull, RespAddedTitle}

PageEditResponses == {RespEdited, RespHttp429}

PageDelaySettings == {s \in DelaySettings : s.delayMs = 5000}

\* parseInput of every text the user submits, computed once.
Parsed == [raw \in SampleTexts \cup PageTexts \cup FairTexts |-> parseInput(raw)]

Active(r) == r.pc \in {"add", "edit", "sleep"}

Logged(r, op) == \E k \in 1..Len(r.log) : r.log[k].op = op

\* History: an active run notes the first time `aborted` is set ("cancel") and
\* the first time it is cleared again ("reset") while the run is under way.
Note(r, op) ==
  IF Active(r) /\ ~Logged(r, op)
  THEN [r EXCEPT !.log = Append(@, Event(op, r.i, <<>>))]
  ELSE r

\* An empty text, and no call of the parser yet.
EmptyDoc == [rows |-> <<>>, eol |-> <<"\n">>]

\* The page after injectUI.
PageInit ==
  /\ pathname \in Pathnames
  /\ running = FALSE
  /\ aborted = FALSE
  /\ startDisabled = FALSE
  /\ cancelHidden = TRUE
  /\ run = [h \in Handlers |-> IdleRun]

Init ==
  /\ PageInit
  /\ doc = EmptyDoc
  /\ out = Null

Free(h) == run[h].pc \in {"idle", "done"}

\* The slot a new invocation takes: the lowest free one.
IsNextSlot(h) == Free(h) /\ \A g \in Handlers : Free(g) => h <= g

\* Finished writing the "Upload complete" summary whatever `aborted` holds.
Finished_IgnoresAborted(r, ab) ==
  [r EXCEPT !.pc = "done",
            !.out = IF r.pc = "threw" THEN "error" ELSE "complete"]

\* Lines 552-565: the handler after processItems settled.
Finished(r, ab) ==
  [r EXCEPT !.pc = "done",
            !.out = IF r.pc = "threw" THEN "error"
                    ELSE IF ab THEN "cancelled" ELSE "complete"]

\* A continuation of invocation h ran to its next await or to the end of the
\* handler, leaving the run record r.
Resume(h, r) ==
  IF r.pc \in {"returned", "threw"}
  THEN /\ run' = [run EXCEPT ![h] = Finished(r, aborted)]
       /\ running' = FALSE
       /\ startDisabled' = FALSE
       /\ cancelHidden' = TRUE
       /\ UNCHANGED <<pathname, aborted, parser>>
  ELSE /\ run' = [run EXCEPT ![h] = r]
       /\ UNCHANGED <<pathname, running, aborted, startDisabled, cancelHidden, parser>>

\* Begin without the try/catch of lines 550-560: when processItems throws,
\* the handler ends there and lines 562-565 are not reached.
Begin_NoCatch(h, raw, useDelay, delayMs) ==
  LET items == Parsed[raw]
      r0 == [IdleRun EXCEPT !.items = items, !.useDelay = useDelay,
                            !.delayMs = delayMs]
      r == processItems(r0, pathname, FALSE)
      others == [g \in Handlers |->
                   IF g # h /\ aborted THEN Note(run[g], "reset") ELSE run[g]]
  IN  IF Len(items) = 0
      THEN /\ run' = [run EXCEPT ![h] = IdleRun]
           /\ UNCHANGED <<pathname, running, aborted, startDisabled, cancelHidden, parser>>
      ELSE /\ aborted' = FALSE
           /\ UNCHANGED <<pathname, parser>>
           /\ IF r.pc \in {"returned", "threw"}
              THEN /\ run' = [others EXCEPT ![h] = Finished(r, FALSE)]
                   /\ running' = TRUE
                   /\ startDisabled' = TRUE
                   /\ cancelHidden' = FALSE
              ELSE /\ run' = [others EXCEPT ![h] = r]
                   /\ running' = TRUE
                   /\ startDisabled' = TRUE
                   /\ cancelHidden' = FALSE

\* Lines 502-565: the handler from parseInput on, up to its next await.
Begin(h, raw, useDelay, delayMs) ==
  LET items == Parsed[raw]
      r0 == [IdleRun EXCEPT !.items = items, !.useDelay = useDelay,
                            !.delayMs = delayMs]
      r == processItems(r0, pathname, FALSE)
      others == [g \in Handlers |->
                   IF g # h /\ aborted THEN Note(run[g], "reset") ELSE run[g]]
  IN  IF Len(items) = 0
      THEN /\ run' = [run EXCEPT ![h] = IdleRun]
           /\ UNCHANGED <<pathname, running, aborted, startDisabled, cancelHidden, parser>>
      ELSE /\ aborted' = FALSE
           /\ UNCHANGED <<pathname, parser>>
           /\ IF r.pc \in {"returned", "threw"}
              THEN /\ run' = [others EXCEPT ![h] = Finished(r, FALSE)]
                   /\ running' = FALSE
                   /\ startDisabled' = FALSE
                   /\ cancelHidden' = TRUE
              ELSE /\ run' = [others EXCEPT ![h] = r]
                   /\ running' = TRUE
                   /\ startDisabled' = TRUE
                   /\ cancelHidden' = FALSE

\* Start clicked with the Paste Data tab active (lines 486-492, then Begin).
StartClickPaste(h, raw, useDelay, delayMs) ==
  /\ ~startDisabled
  /\ IsNextSlot(h)
  /\ IF running THEN UNCHANGED vars ELSE Begin(h, raw, useDelay, delayMs)

\* Start clicked with the Upload CSV tab active (lines 486-499): without a
\* file the handler returns, with one it suspends on file.text().
StartClickFile(h, file) ==
  /\ ~startDisabled
  /\ IsNextSlot(h)
  /\ IF running \/ file = Null THEN UNCHANGED vars
     ELSE /\ run' = [run EXCEPT ![h] = [IdleRun EXCEPT !.pc = "reading",
                                                       !.raw = file[1]]]
          /\ UNCHANGED <<pathname, running, aborted, startDisabled, cancelHidden, parser>>

\* file.text() resolved (line 499, then Begin).
FileRead(h, useDelay, delayMs) ==
  /\ run[h].pc = "reading"
  /\ Begin(h, run[h].raw, useDelay, delayMs)

\* file.text() rejected: the handler ends with the rejection, having changed
\* nothing.
FileReadFails(h) ==
  /\ run[h].pc = "reading"
  /\ run' = [run EXCEPT ![h] = IdleRun]
  /\ UNCHANGED <<pathname, running, aborted, startDisabled, cancelHidden, parser>>

\* The AddConstToList request of invocation h settled.  The two awaits of
\* addItemToList (fetch, then res.json()) resume in one step: nothing of the
\* page is read or written between them.
AddSettles(h, resp) ==
  /\ run[h].pc = "add"
  /\ Resume(h, AfterAdd(run[h], resp, aborted))

\* The EditListItemDescription request of invocation h settled.
EditSettles(h, resp) ==
  /\ run[h].pc = "edit"
  /\ Resume(h, AfterEdit(run[h], resp, aborted))

\* The timer of sleep(delayMs) fired.
SleepWakes(h) ==
  /\ run[h].pc = "sleep"
  /\ Resume(h, AfterSleep(run[h], aborted))

\* Lines 568-572.
CancelClick ==
  /\ ~cancelHidden
  /\ aborted' = TRUE
  /\ cancelHidden' = TRUE
  /\ run' = [h \in Handlers |-> IF aborted THEN run[h] ELSE Note(run[h], "cancel")]
  /\ UNCHANGED <<pathname, running, startDisabled, parser>>

\* The page with both tabs in use: a Start click can be pending on a file
\* read while another one is handled.
Next ==
  \/ \E h \in Handlers, raw \in PageTexts, s \in PageDelaySettings :
       StartClickPaste(h, raw, s.useDelay, s.delayMs)
  \/ \E h \in Handlers, file \in {Null} \cup {Some(raw) : raw \in PageTexts} :
       StartClickFile(h, file)
  \/ \E h \in Handlers, s \in PageDelaySettings :
       FileRead(h, s.useDelay, s.delayMs)
  \/ \E h \in Handlers : FileReadFails(h)
  \/ \E h \in Handlers, resp \in PageAddResponses : AddSettles(h, resp)
  \/ \E h \in Handlers, resp \in PageEditResponses : EditSettles(h, resp)
  \/ \E h \in Handlers : SleepWakes(h)
  \/ CancelClick

Spec == Init /\ [][Next]_vars

\* The answers followed in SpecFair: a failure and a success for
\* AddConstToList, a failure and a success for EditListItemDescription.
FairAddResponses == {RespHttp500, RespAddedTitle}

FairEditResponses == {RespEdited, RespHttp429}

\* The page with both tabs in use, as in Next, with fewer texts and fewer
\* kinds of answer.
NextFair ==
  \/ \E h \in Handlers, raw \in FairTexts, s \in PageDelaySettings :
       StartClickPaste(h, raw, s.useDelay, s.delayMs)
  \/ \E h \in Handlers, file \in {Null} \cup {Some(raw) : raw \in FairTexts} :
       StartClickFile(h, file)
  \/ \E h \in Handlers, s \in PageDelaySettings :
       FileRead(h, s.useDelay, s.delayMs)
  \/ \E h \in Handlers : FileReadFails(h)
  \/ \E h \in Handlers, resp \in FairAddResponses : AddSettles(h, resp)
  \/ \E h \in Handlers, resp \in FairEditResponses : EditSettles(h, resp)
  \/ \E h \in Handlers : SleepWakes(h)
  \/ CancelClick

\* Every request of a run is answered in the end and every timer fires: the
\* continuation of a run that waits for one of them is not put off for ever.
Fairness ==
  \A h \in Handlers :
    /\ WF_vars(\E resp \in FairAddResponses : AddSettles(h, resp))
    /\ WF_vars(\E resp \in FairEditResponses : EditSettles(h, resp))
    /\ WF_vars(SleepWakes(h))

SpecFair == Init /\ [][NextFair]_vars /\ Fairness

\* The page with the Paste Data tab only, every delay option and every kind
\* of answer of the service.
NextItems ==
  \/ \E h \in Handlers, raw \in SampleTexts, s \in DelaySettings :
       StartClickPaste(h, raw, s.useDelay, s.delayMs)
  \/ \E h \in Handlers, resp \in AddResponses : AddSettles(h, resp)
  \/ \E h \in Handlers, resp \in EditResponses : EditSettles(h, resp)
  \/ \E h \in Handlers : SleepWakes(h)
  \/ CancelClick

SpecItems == Init /\ [][NextItems]_vars

(***************************************************************************)
(* The parser on its own.  A text is written from rows of cells the way a  *)
(* spreadsheet exports them: a cell as it is, or between double quotes     *)
(* with every double quote in it doubled; the cells of a row joined by     *)
(* commas; the rows joined by a line terminator.                           *)
(***************************************************************************)
Cell(text, quoted) == [text |-> text, quoted |-> quoted]

RECURSIVE DoubleQuotes(_)
DoubleQuotes(s) ==
  IF s = <<>> THEN <<>>
  ELSE (IF Head(s) = "\"" THEN <<"\"", "\"">> ELSE <<Head(s)>>) \o DoubleQuotes(Tail(s))

RenderCell(c) ==
  IF c.quoted THEN <<"\"">> \o DoubleQuotes(c.text) \o <<"\"">> ELSE c.text

RECURSIVE JoinWith(_, _)
JoinWith(ss, sep) ==
  IF ss = <<>> THEN <<>>
  ELSE IF Len(ss) = 1 THEN Head(ss)
  ELSE Head(ss) \o sep \o JoinWith(Tail(ss), sep)

RenderRow(row) == JoinWith([k \in 1..Len(row) |-> RenderCell(row[k])], <<",">>)

Render(d) == JoinWith([k \in 1..Len(d.rows) |-> RenderRow(d.rows[k])], d.eol)

\* First cells:  tt1_  ID  id_  (empty)  " "  "id"
FirstCells ==
  { Cell(<<"t", "t", "1", " ">>, FALSE),
    Cell(<<"I", "D">>, FALSE),
    Cell(<<"i", "d", " ">>, FALSE),
    Cell(<<>>, FALSE),
    Cell(<<" ">>, TRUE),
    Cell(<<"i", "d">>, TRUE) }

\* The cells after the first:  none;  (empty);  _a_;  "b,""c",x
Rests ==
  { <<>>,
    << Cell(<<>>, FALSE) >>,
    << Cell(<<" ", "a", " ">>, FALSE) >>,
    << Cell(<<"b", ",", "\"", "c">>, TRUE), Cell(<<"x">>, FALSE) >> }

\* Two more rows:  ,,  and  ID,Description
ExtraRows ==
  { << Cell(<<>>, FALSE), Cell(<<>>, FALSE), Cell(<<>>, FALSE) >>,
    << Cell(<<"I", "D">>, FALSE),
       Cell(<<"D", "e", "s", "c", "r", "i", "p", "t", "i", "o", "n">>, FALSE) >> }

Rows == {<<f>> \o r : f \in FirstCells, r \in Rests} \cup ExtraRows

\* LF, CRLF and a lone CR.
LF == <<"\n">>

CRLF == <<"\r", "\n">>

CR == <<"\r">>

Eols == {LF, CRLF, CR}

\* Most rows of a text handed to the parser.
MaxRows == 2

Docs ==
  {[rows |-> rs, eol |-> e] :
     rs \in UNION {[1..n -> Rows] : n \in 0..MaxRows}, e \in Eols}

Called(op, row, arg, value) == [op |-> op, row |-> row, arg |-> arg, value |-> value]

\* parseInput(raw) is called with the text (line 502).
CallParseInput ==
  /\ out' = Some(Called("parseInput", 0, Render(doc), parseInput(Render(doc))))
  /\ UNCHANGED <<pathname, running, aborted, startDisabled, cancelHidden, run, doc>>

\* parseLine(line) is called with a data line (line 112): row k of the text,
\* trimmed and not blank.
CallParseLine(k) ==
  LET line == trim(RenderRow(doc.rows[k]))
  IN  /\ line # <<>>
      /\ out' = Some(Called("parseLine", k, line, parseLine(line)))
      /\ UNCHANGED <<pathname, running, aborted, startDisabled, cancelHidden, run, doc>>

\* splitCSVLine(line) is called by parseLine (line 120) with the same line.
CallSplitCSVLine(k) ==
  LET line == trim(RenderRow(doc.rows[k]))
  IN  /\ line # <<>>
      /\ out' = Some(Called("splitCSVLine", k, line, splitCSVLine(line)))
      /\ UNCHANGED <<pathname, running, aborted, startDisabled, cancelHidden, run, doc>>

InitParse ==
  /\ PageInit
  /\ getListId(pathname) # Null
  /\ doc \in Docs
  /\ out = Null

NextParse ==
  \/ CallParseInput
  \/ \E k \in 1..Len(doc.rows) : CallParseLine(k)
  \/ \E k \in 1..Len(doc.rows) : CallSplitCSVLine(k)

SpecParse == InitParse /\ [][NextParse]_vars

(***************************************************************************)
(* Reading a run's history.                                                *)
(***************************************************************************)
EventsOf(r, op) == SelectSeq(r.log, LAMBDA e : e.op = op)

Where(r, op, pos) == {k \in 1..Len(r.log) : r.log[k].op = op /\ r.log[k].pos = pos}

Has(r, op, pos) == Where(r, op, pos) # {}

First(r, op) == r.log[CHOOSE k \in 1..Len(r.log) :
                        /\ r.log[k].op = op
                        /\ \A j \in 1..(k - 1) : r.log[j].op # op]

\* processItems returned its results and the handler logged a summary.
Completed(r) == r.pc = "done" /\ r.out # "error"

\* `aborted` was never true while the run was under way.
NeverCancelled(r) == ~Logged(r, "cancel")

\* C1: a batch of N items processed with the cancellation flag never set gets
\* exactly N onProgress calls, in input order, with status.index 0..N-1 and
\* done 1..N; the results have length N and the summary is the "Upload
\* complete" one, whatever the service answered.
C1_Ordering ==
  \A h \in Handlers :
    LET r == run[h]
        P == EventsOf(r, "progress")
    IN  /\ \A k \in 1..Len(P) :
             /\ P[k].pos = k - 1
             /\ P[k].arg[3].index = k - 1
             /\ P[k].arg[3].id = r.items[k].id
        /\ (Completed(r) /\ NeverCancelled(r)) =>
             /\ Len(P) = Len(r.items)
             /\ Len(r.results) = Len(r.items)
             /\ r.out = "complete"

\* C1 witness: a finished, never cancelled run of two items, the first of
\* which failed and the second of which succeeded.
C1_Witness ==
  \E h \in Handlers :
    /\ Completed(run[h])
    /\ NeverCancelled(run[h])
    /\ Len(run[h].items) = 2
    /\ Len(run[h].results) = 2
    /\ ~run[h].results[1].ok
    /\ run[h].results[2].ok

\* C2: when `aborted` first becomes true while the item at position K is in
\* flight, the run records exactly the K+1 outcomes of positions 0..K, sends
\* no AddConstToList for a later position, and is reported as cancelled.
C2_Cancellation ==
  \A h \in Handlers :
    LET r == run[h]
    IN  Logged(r, "cancel") =>
          LET K == First(r, "cancel").pos
          IN  /\ \A k \in 1..Len(r.log) : r.log[k].op = "add" => r.log[k].pos <= K
              /\ r.pc = "done" => /\ Len(r.results) = K + 1
                                  /\ r.out = "cancelled"

\* C2 on a page where no second Start handler is under way: the property
\* holds when `aborted` is not cleared during the run.
C2_CancellationUnlessReset ==
  \A h \in Handlers :
    LET r == run[h]
    IN  (Logged(r, "cancel") /\ ~Logged(r, "reset")) =>
          LET K == First(r, "cancel").pos
          IN  /\ \A k \in 1..Len(r.log) : r.log[k].op = "add" => r.log[k].pos <= K
              /\ r.pc = "done" => /\ Len(r.results) = K + 1
                                  /\ r.out = "cancelled"

\* The service did not carry out the request: the transport failed, the HTTP
\* status was not a success, the payload listed API errors or held no data.
RemoteFailure(resp) ==
  \/ ~resp.fetched
  \/ ~resp.ok
  \/ Len(resp.errors) > 0
  \/ ~resp.hasData

\* C3: when AddConstToList fails for position i, a failed outcome is recorded
\* for i, processItems does not throw, and unless cancellation is requested
\* every later position is still attempted.
C3_FailureIsolation ==
  \A h \in Handlers :
    LET r == run[h]
    IN  /\ r.out = "error" => r.log = <<>>
        /\ \A k \in 1..Len(r.log) :
             (r.log[k].op = "added" /\ RemoteFailure(r.log[k].arg[1])) =>
               LET i == r.log[k].pos
               IN  /\ Len(r.results) > i
                   /\ r.results[i + 1].index = i
                   /\ ~r.results[i + 1].ok
                   /\ r.results[i + 1].error # Null
                   /\ r.pc \in {"add", "edit", "sleep", "done"}
                   /\ r.out # "error"
                   /\ (r.pc = "done" /\ NeverCancelled(r)) =>
                        \A j \in (i + 1)..(Len(r.items) - 1) : Has(r, "add", j)

\* C3 witness: the first request was rejected by the transport, the second
\* item was then attempted and answered with a non-success status, and the
\* never cancelled run returned both outcomes.
C3_Witness ==
  \E h \in Handlers :
    /\ Completed(run[h])
    /\ NeverCancelled(run[h])
    /\ Len(run[h].results) = 2
    /\ \E k \in Where(run[h], "added", 0) : ~run[h].log[k].arg[1].fetched
    /\ \E k \in Where(run[h], "added", 1) :
         run[h].log[k].arg[1].fetched /\ ~run[h].log[k].arg[1].ok

\* C4: when AddConstToList succeeded for an item and the following
\* EditListItemDescription failed, the item's outcome is still ok = true.
C4_AnnotationFailureKeepsSuccess ==
  \A h \in Handlers :
    LET r == run[h]
    IN  \A k \in 1..Len(r.log) :
          (r.log[k].op = "edited" /\ RemoteFailure(r.log[k].arg[1])) =>
            /\ Len(r.results) > r.log[k].pos
            /\ r.results[r.log[k].pos + 1].ok

\* C5: at most one request of a run is unanswered at any moment, and the
\* AddConstToList of position i+1 is sent only after the AddConstToList and,
\* if one was sent, the EditListItemDescription of position i were answered.
C5_Sequential ==
  \A h \in Handlers :
    LET r == run[h]
        Before(k, op, pos) == \E a \in 1..(k - 1) : r.log[a].op = op /\ r.log[a].pos = pos
    IN  /\ Cardinality(r.calls) <= 1
        /\ \A k \in 1..Len(r.log) :
             (r.log[k].op = "add" /\ r.log[k].pos > 0) =>
               /\ Before(k, "added", r.log[k].pos - 1)
               /\ Before(k, "edit", r.log[k].pos - 1) =>
                    Before(k, "edited", r.log[k].pos - 1)

\* C5 witness: the request for the second item is in flight after both
\* requests of the first item were answered.
C5_Witness ==
  \E h \in Handlers :
    /\ run[h].calls = {Call("add", 1)}
    /\ Has(run[h], "edited", 0)

\* C6: without a list id in the URL processItems throws before anything else:
\* no request is sent, onProgress is never called, no results are returned
\* and the handler logs the error, for every batch and option setting.
C6_NoListId ==
  \A h \in Handlers :
    LET r == run[h]
    IN  getListId(pathname) = Null =>
          /\ r.log = <<>>
          /\ r.results = <<>>
          /\ r.calls = {}
          /\ r.pc \in {"idle", "reading", "done"}
          /\ r.pc = "done" => r.out = "error"

\* C6 witness: a batch of two items with the delay enabled was started on a
\* page whose URL holds no list id.
C6_Witness ==
  /\ getListId(pathname) = Null
  /\ \E h \in Handlers :
       /\ run[h].pc = "done"
       /\ run[h].out = "error"
       /\ Len(run[h].items) = 2
       /\ run[h].useDelay

IsRequest(e) == e.op \in {"add", "edit"}

\* C7: with the delay enabled and no cancellation, every onProgress call but
\* the last item's is directly followed by one sleep(delayMs), every sleep
\* directly follows such a call, and a finished run of N items slept N-1
\* times; with the delay disabled the run never sleeps.
C7_Delay ==
  \A h \in Handlers :
    LET r == run[h]
        N == Len(r.items)
    IN  /\ ~r.useDelay => EventsOf(r, "sleep") = <<>>
        /\ (r.useDelay /\ NeverCancelled(r)) =>
             /\ \A k \in 1..Len(r.log) :
                  (r.log[k].op = "progress" /\ r.log[k].pos < N - 1) =>
                    /\ k < Len(r.log)
                    /\ r.log[k + 1].op = "sleep"
                    /\ r.log[k + 1].arg[1] = r.delayMs
             /\ \A k \in 1..Len(r.log) :
                  r.log[k].op = "sleep" =>
                    /\ k > 1
                    /\ r.log[k - 1].op = "progress"
                    /\ r.log[k].pos < N - 1
             /\ Completed(r) => Len(EventsOf(r, "sleep")) = N - 1

\* C7 witness: a never cancelled run of two items with the delay enabled has
\* finished after sleeping once.
C7_Witness ==
  \E h \in Handlers :
    /\ Completed(run[h])
    /\ NeverCancelled(run[h])
    /\ run[h].useDelay
    /\ Len(run[h].items) = 2
    /\ Len(run[h].results) = 2
    /\ Len(EventsOf(run[h], "sleep")) = 1

\* C8: with the delay enabled, a sleep separates any two consecutive requests
\* of a run, the AddConstToList and the EditListItemDescription of one item
\* included.
C8_DelayBetweenRequests ==
  \A h \in Handlers :
    LET r == run[h]
    IN  r.useDelay =>
          \A a \in 1..Len(r.log) : \A b \in (a + 1)..Len(r.log) :
            (IsRequest(r.log[a]) /\ IsRequest(r.log[b])) =>
              \E k \in (a + 1)..(b - 1) : r.log[k].op = "sleep"

\* C9: EditListItemDescription is sent for an item exactly when its
\* description is non-empty, its AddConstToList succeeded and the answer
\* carried an itemId; it is sent with that itemId and that description.
C9_Annotation ==
  \A h \in Handlers :
    LET r == run[h]
    IN  /\ \A k \in 1..Len(r.log) :
             r.log[k].op = "added" =>
               LET resp == r.log[k].arg[1]
                   item == r.items[r.log[k].pos + 1]
               IN  Has(r, "edit", r.log[k].pos) <=>
                     /\ item.description # <<>>
                     /\ ~RemoteFailure(resp)
                     /\ resp.item # Null
                     /\ resp.item[1].itemId # <<>>
        /\ \A k \in 1..Len(r.log) :
             r.log[k].op = "edit" =>
               /\ k > 1
               /\ r.log[k - 1].op = "added"
               /\ r.log[k - 1].pos = r.log[k].pos
               /\ r.log[k - 1].arg[1].item # Null
               /\ r.log[k].arg = <<r.listId[1],
                                   r.log[k - 1].arg[1].item[1].itemId,
                                   r.items[r.log[k].pos + 1].description>>

\* C9 witness: the descriptions of two items were sent, each with the itemId
\* its own AddConstToList returned.
C9_Witness ==
  \E h \in Handlers :
    /\ \E k \in Where(run[h], "edit", 0) : run[h].log[k].arg[2] = <<"l", "i", "1">>
    /\ \E k \in Where(run[h], "edit", 1) : run[h].log[k].arg[2] = <<"l", "i", "2">>

\* The title or name the service confirmed for the item, Null without one.
ConfirmedLabel(resp) ==
  IF RemoteFailure(resp) \/ resp.item = Null THEN Null
  ELSE IF resp.item[1].titleText # <<>> THEN Some(resp.item[1].titleText)
  ELSE IF resp.item[1].nameText # <<>> THEN Some(resp.item[1].nameText)
  ELSE Null

AddedResponse(r, pos) == r.log[CHOOSE k \in Where(r, "added", pos) : TRUE].arg[1]

\* The outcomes reported through onProgress are the ones returned.
ReportedAreReturned(r) ==
  LET P == EventsOf(r, "progress")
  IN  /\ Len(P) = Len(r.results)
      /\ \A k \in 1..Len(P) : P[k].arg[3] = r.results[k]

\* C10 as stated: every outcome, succeeded or failed, carries the title or
\* name the service confirmed, or else the item's id, and never an empty
\* title.
C10_DisplayLabel ==
  \A h \in Handlers :
    LET r == run[h]
    IN  /\ ReportedAreReturned(r)
        /\ \A k \in 1..Len(r.results) :
             LET label == ConfirmedLabel(AddedResponse(r, k - 1))
             IN  /\ r.results[k].title # <<>>
                 /\ r.results[k].title = IF label # Null THEN label[1]
                                         ELSE r.items[k].id

\* C10 amended: an outcome whose AddConstToList succeeded carries the title
\* or name the service confirmed, or else the item's id, and it is not empty,
\* also when the outcome failed on the description; an outcome whose
\* AddConstToList failed carries the empty title.
C10_DisplayLabelAfterAdd ==
  \A h \in Handlers :
    LET r == run[h]
    IN  /\ ReportedAreReturned(r)
        /\ \A k \in 1..Len(r.results) :
             LET resp == AddedResponse(r, k - 1)
                 label == ConfirmedLabel(resp)
             IN  IF RemoteFailure(resp) THEN r.results[k].title = <<>>
                 ELSE /\ r.results[k].title # <<>>
                      /\ r.results[k].title = IF label # Null THEN label[1]
                                              ELSE r.items[k].id

\* C10 witness: the first outcome failed in AddConstToList, the second was
\* added under a confirmed title and then failed on its description.
C10_Witness ==
  \E h \in Handlers :
    /\ Len(run[h].results) = 2
    /\ RemoteFailure(AddedResponse(run[h], 0))
    /\ ~RemoteFailure(AddedResponse(run[h], 1))
    /\ ~run[h].results[2].ok
    /\ run[h].results[2].title = <<"H", "e", "a", "t">>

\* The loop of processItems was left before every item was attempted.
ExitedEarly(r) == Len(r.results) < Len(r.items)

LocalOps == {"added", "edited", "progress", "sleep", "cancel", "reset"}

\* The requests a run has sent so far.
RequestsOf(r) == {k \in 1..Len(r.log) : r.log[k].op \notin LocalOps}

\* The positions whose item the service confirmed as added.
Added(r) ==
  {pos \in 0..(Len(r.items) - 1) :
     \E k \in Where(r, "added", pos) : ~RemoteFailure(r.log[k].arg[1])}

\* The positions whose item is in the remote list: added, and not the target
\* of a later request other than a description edit.
RemoteList(r) ==
  {pos \in Added(r) :
     \A k \in RequestsOf(r) : r.log[k].pos = pos => r.log[k].op \in Mutations}

\* C12: every request of a run is an AddConstToList or an
\* EditListItemDescription, never a removal, and from one step of a run to
\* the next the set of items it added to the remote list only grows, through
\* description failures, failures of other items and cancellation.
C12_NoRollback ==
  [][\A h \in Handlers :
       Active(run[h]) =>
         /\ RemoteList(run[h]) \subseteq RemoteList(run'[h])
         /\ Added(run'[h]) = RemoteList(run'[h])
         /\ \A k \in RequestsOf(run'[h]) : run'[h].log[k].op \in Mutations]_vars

\* C12 witness: the first item was added and its description then failed,
\* the second item failed, Cancel was clicked, and the finished run still
\* has the first item in the remote list.
C12_Witness ==
  \E h \in Handlers :
    /\ run[h].pc = "done"
    /\ run[h].out = "cancelled"
    /\ Len(run[h].results) = 2
    /\ \E k \in Where(run[h], "edited", 0) : RemoteFailure(run[h].log[k].arg[1])
    /\ RemoteFailure(AddedResponse(run[h], 1))
    /\ RemoteList(run[h]) = {0}

\* C13: within one run at most one AddConstToList and at most one
\* EditListItemDescription is sent for every position of the batch, whether
\* or not they fail.
C13_NoRetry ==
  \A h \in Handlers :
    \A pos \in 0..(Len(run[h].items) - 1) :
      /\ Cardinality(Where(run[h], "add", pos)) <= 1
      /\ Cardinality(Where(run[h], "edit", pos)) <= 1

\* C13 witness: a finished run whose first item failed in AddConstToList and
\* whose second item failed in EditListItemDescription, each request having
\* been sent once.
C13_Witness ==
  \E h \in Handlers :
    /\ Completed(run[h])
    /\ Len(run[h].results) = 2
    /\ RemoteFailure(AddedResponse(run[h], 0))
    /\ Cardinality(Where(run[h], "add", 0)) = 1
    /\ \E k \in Where(run[h], "edited", 1) : RemoteFailure(run[h].log[k].arg[1])
    /\ Cardinality(Where(run[h], "edit", 1)) = 1

(***************************************************************************)
(* What a text should parse to, read off the rows it was written from.     *)
(***************************************************************************)
\* The last call was a call of op.
Out(op) == out # Null /\ out[1].op = op

\* The rows of the text are its lines: they are joined by LF or CRLF, or
\* there is no terminator in the text at all.
LinesAreRows(d) == d.eol \in {LF, CRLF} \/ Len(d.rows) <= 1

\* The line of a row as parseInput keeps it.
RowLine(row) == trim(RenderRow(row))

\* The rows whose line is not blank.
SurvivingRows(d) == SelectSeq(d.rows, LAMBDA row : RowLine(row) # <<>>)

\* A letter and its capital, for the letters of "id,description".
Capital ==
  [c \in {"i", "d", "e", "s", "c", "r", "p", "t", "o", "n"} |->
     CASE c = "i" -> "I" [] c = "d" -> "D" [] c = "e" -> "E" [] c = "s" -> "S"
       [] c = "c" -> "C" [] c = "r" -> "R" [] c = "p" -> "P" [] c = "t" -> "T"
       [] c = "o" -> "O" [] c = "n" -> "N"]

SameIgnoringCase(a, b) == a = b \/ (b \in DOMAIN Capital /\ a = Capital[b])

\* line equals the lower-case pattern, compared case-insensitively.
EqualsIgnoringCase(line, pattern) ==
  /\ Len(line) = Len(pattern)
  /\ \A k \in 1..Len(pattern) : SameIgnoringCase(line[k], pattern[k])

StartsIgnoringCase(line, pattern) ==
  /\ Len(line) >= Len(pattern)
  /\ EqualsIgnoringCase(SubSeq(line, 1, Len(pattern)), pattern)

IsHeaderLine(line) ==
  \/ EqualsIgnoringCase(line, <<"i", "d">>)
  \/ EqualsIgnoringCase(line, Header)
  \/ StartsIgnoringCase(line, <<"i", "d", ",">>)

\* The rows that are data: the surviving rows, without the first one when it
\* is a header.
ExpectedDataRows(d) ==
  LET rs == SurvivingRows(d)
  IN  IF rs # <<>> /\ IsHeaderLine(RowLine(rs[1])) THEN Tail(rs) ELSE rs

\* The item a row stands for: its first cell as id, its second as description.
ExpectedItem(row) ==
  [id |-> trim(row[1].text),
   description |-> IF Len(row) > 1 THEN trim(row[2].text) ELSE <<>>]

\* The items a text stands for: one for every data row with an id, in order.
ExpectedItems(d) ==
  LET rs == SelectSeq(ExpectedDataRows(d), LAMBDA row : trim(row[1].text) # <<>>)
  IN  [k \in 1..Len(rs) |-> ExpectedItem(rs[k])]

\* C14: every item parseInput returns has a non-empty, trimmed id, and
\* parseLine returns no item for a line whose first field is empty or blank
\* (a line of commas, a quoted blank first field).
C14_NonEmptyId ==
  /\ Out("parseInput") =>
       \A k \in 1..Len(out[1].value) :
         /\ out[1].value[k].id # <<>>
         /\ trim(out[1].value[k].id) = out[1].value[k].id
  /\ Out("parseLine") =>
       LET row == doc.rows[out[1].row]
           v == out[1].value
       IN  /\ trim(row[1].text) = <<>> => v = Null
           /\ v # Null => v[1].id # <<>> /\ trim(v[1].id) = v[1].id

\* C14 witness: parseLine was called with a line whose first field is a
\* quoted blank followed by a description, and returned no item.
C14_Witness ==
  /\ Out("parseLine")
  /\ doc.rows[out[1].row][1] = Cell(<<" ">>, TRUE)
  /\ Len(doc.rows[out[1].row]) > 1
  /\ out[1].value = Null

\* C15: parseInput drops the first non-blank line exactly when that line,
\* trimmed and compared case-insensitively, is "id", is "id,description" or
\* starts with "id,"; every other non-blank line is parsed as data.
C15_Header ==
  (Out("parseInput") /\ LinesAreRows(doc)) =>
    LET rs == ExpectedDataRows(doc)
    IN  out[1].value = ParseLines([k \in 1..Len(rs) |-> RowLine(rs[k])])

\* C15 witness: a text whose first line is the header "ID, a" and whose
\* second line is "ID" again; only the second became an item.
C15_Witness ==
  /\ Out("parseInput")
  /\ Len(doc.rows) = 2
  /\ doc.rows[1] = <<Cell(<<"I", "D">>, FALSE), Cell(<<" ", "a", " ">>, FALSE)>>
  /\ doc.rows[2] = <<Cell(<<"I", "D">>, FALSE)>>
  /\ doc.eol = CRLF
  /\ out[1].value = <<[id |-> <<"I", "D">>, description |-> <<>>]>>

\* C16: splitCSVLine returns one field per cell of the row: a comma between
\* double quotes starts no field, a doubled double quote between double
\* quotes is one quote of the field, and the enclosing quotes are not part
\* of the field.  (The line was trimmed, so the first and the last field are
\* compared up to the blanks at their ends when the row had any.)
C16_Fields ==
  Out("splitCSVLine") =>
    LET row == doc.rows[out[1].row]
        fields == out[1].value
    IN  /\ Len(fields) = Len(row)
        /\ \A k \in 1..Len(row) :
             /\ trim(fields[k]) = trim(row[k].text)
             /\ (1 < k /\ k < Len(row)) => fields[k] = row[k].text
             /\ (RenderRow(row) = out[1].arg) => fields[k] = row[k].text

\* C16 witness: the line  tt1 ,"b,""c",x  was split into its three fields.
C16_Witness ==
  /\ Out("splitCSVLine")
  /\ out[1].arg = RenderRow(doc.rows[out[1].row])
  /\ out[1].value = << <<"t", "t", "1", " ">>, <<"b", ",", "\"", "c">>, <<"x">> >>

\* C17 as stated: whichever of LF, CRLF and a lone CR ends the lines of a
\* text, parseInput returns one item for every line that holds an id.
C17_EveryLineEnding ==
  Out("parseInput") => Len(out[1].value) = Len(ExpectedItems(doc))

\* C17 amended: parseInput returns one item for every line that holds an id
\* when the lines end with LF or CRLF; a lone CR ends no line, so a text
\* whose rows are joined by CR alone is one line and gives one item at most.
C17_LineFeedEndings ==
  Out("parseInput") =>
    IF LinesAreRows(doc) THEN Len(out[1].value) = Len(ExpectedItems(doc))
    ELSE Len(out[1].value) <= 1

\* C17 witness: two ids written on two lines joined by a lone CR came back
\* as one item whose id holds both and the CR.
C17_Witness ==
  /\ Out("parseInput")
  /\ doc.eol = CR
  /\ Len(doc.rows) = 2
  /\ Len(ExpectedItems(doc)) = 2
  /\ Len(out[1].value) = 1
  /\ \E k \in 1..Len(out[1].value[1].id) : out[1].value[1].id[k] = "\r"

\* C18: the items parseInput returns are the items of the data lines that
\* hold an id, one each, in the order of the lines, an id that occurs twice
\* giving two items.
C18_Order ==
  (Out("parseInput") /\ LinesAreRows(doc)) => out[1].value = ExpectedItems(doc)

\* C18 witness: two lines with the same id, the second with a description,
\* came back as two items in that order.
C18_Witness ==
  /\ Out("parseInput")
  /\ doc.eol = LF
  /\ out[1].value = << [id |-> <<"t", "t", "1">>, description |-> <<>>],
                       [id |-> <<"t", "t", "1">>, description |-> <<"a">>] >>

\* C19: the description parseLine returns is the second field, trimmed, or
\* the empty string for a line without a comma; the fields after the second
\* change nothing: the line cut after its second field gives the same item.
C19_Description ==
  Out("parseLine") =>
    LET row == doc.rows[out[1].row]
        v == out[1].value
        firstTwo == SubSeq(row, 1, IF Len(row) > 2 THEN 2 ELSE Len(row))
    IN  /\ v # Null =>
             v[1].description = IF Len(row) > 1 THEN trim(row[2].text) ELSE <<>>
        /\ v = parseLine(RowLine(firstTwo))

\* C19 witness: the line  tt1 ,"b,""c",x  gave the description  b,"c .
C19_Witness ==
  /\ Out("parseLine")
  /\ Len(doc.rows[out[1].row]) = 3
  /\ out[1].value = Some([id |-> <<"t", "t", "1">>,
                          description |-> <<"b", ",", "\"", "c">>])

\* C20: at most one processItems run is under way at any time, and so at
\* most one run has a request to the service in flight, whatever the order of
\* Start clicks, file reads and Cancel clicks.
C20_SingleRun ==
  /\ Cardinality({h \in Handlers : Active(run[h])}) <= 1
  /\ Cardinality({h \in Handlers : run[h].calls # {}}) <= 1

\* C21: while a run is under way `aborted` never goes from true back to
\* false, whatever the order of Start clicks, file reads and Cancel clicks.
C21_MonotonicFlag ==
  [][\A h \in Handlers : (Active(run[h]) /\ aborted) => aborted']_vars

\* The index in a run's history of the first time `aborted` was set.
FirstCancel(r) ==
  CHOOSE k \in 1..Len(r.log) :
    /\ r.log[k].op = "cancel"
    /\ \A j \in 1..(k - 1) : r.log[j].op # "cancel"

\* `aborted` was set while the run was suspended in sleep(delayMs).
CancelledInSleep(r) ==
  /\ Logged(r, "cancel")
  /\ FirstCancel(r) > 1
  /\ r.log[FirstCancel(r) - 1].op = "sleep"

\* C22: once `aborted` has been set during a run, the run begins no sleep;
\* when it was set during a sleep, the run sends no request after it and,
\* the sleep over, returns with the outcomes it had.
C22_NoDelayAfterCancel ==
  \A h \in Handlers :
    LET r == run[h]
    IN  Logged(r, "cancel") =>
          /\ \A k \in (FirstCancel(r) + 1)..Len(r.log) : r.log[k].op # "sleep"
          /\ CancelledInSleep(r) =>
               /\ \A k \in (FirstCancel(r) + 1)..Len(r.log) : ~IsRequest(r.log[k])
               /\ r.pc \in {"sleep", "done"}
               /\ r.pc = "done" => r.out = "cancelled"

\* C22 where `aborted` is not cleared during the run.
C22_NoDelayAfterCancelUnlessReset ==
  \A h \in Handlers :
    LET r == run[h]
    IN  (Logged(r, "cancel") /\ ~Logged(r, "reset")) =>
          /\ \A k \in (FirstCancel(r) + 1)..Len(r.log) : r.log[k].op # "sleep"
          /\ CancelledInSleep(r) =>
               /\ \A k \in (FirstCancel(r) + 1)..Len(r.log) : ~IsRequest(r.log[k])
               /\ r.pc \in {"sleep", "done"}
               /\ r.pc = "done" => r.out = "cancelled"

\* The Start handler is idle: running is false, Start is enabled and Cancel
\* is hidden.
HostIdle == ~running /\ ~startDisabled /\ cancelHidden

\* A finished invocation does nothing more: its record changes only when a
\* later Start click takes the slot for a new invocation.
StaysFinished(h) ==
  run[h].pc = "done" =>
    \/ run'[h] = run[h]
    \/ /\ run'[h].pc \in {"idle", "reading", "add", "done"}
       /\ Len(run'[h].log) <= 1
       /\ run'[h].results = <<>>

\* C23: when every request is answered and every timer fires, every run that
\* was started ends, by exhaustion or by cancellation, and the host is idle
\* again (running false, Start enabled), also when processItems throws; a
\* run that ended has no request in flight and sends no request and makes no
\* onProgress call afterwards.
C23_Termination ==
  /\ \A h \in Handlers : Active(run[h]) ~> run[h].pc = "done"
  /\ running ~> HostIdle
  /\ []((\A h \in Handlers : ~Active(run[h])) => HostIdle)
  /\ [](\A h \in Handlers : run[h].pc = "done" => run[h].calls = {})
  /\ [][\A h \in Handlers : StaysFinished(h)]_vars

\* C23 witness: a run of two items that slept between them has ended and the
\* host is idle again.
C23_Witness ==
  /\ HostIdle
  /\ \E h \in Handlers :
       /\ run[h].pc = "done"
       /\ Len(run[h].results) = 2
       /\ Len(EventsOf(run[h], "sleep")) = 1

\* C24: the k-th onProgress call of a run reports done = k, which is the
\* index of its outcome plus one and the number of outcomes recorded so far,
\* never more than total, and total is the length of the batch; when the run
\* has ended, the outcomes counted as added and as failed are together as
\* many as the calls.
C24_ProgressCounts ==
  \A h \in Handlers :
    LET r == run[h]
        P == EventsOf(r, "progress")
        succeeded == Cardinality({k \in 1..Len(r.results) : r.results[k].ok})
        failed == Cardinality({k \in 1..Len(r.results) : ~r.results[k].ok})
    IN  /\ Len(P) = Len(r.results)
        /\ \A k \in 1..Len(P) :
             /\ P[k].arg[1] = k
             /\ P[k].arg[1] = P[k].arg[3].index + 1
             /\ P[k].arg[1] <= P[k].arg[2]
             /\ P[k].arg[2] = Len(r.items)
        /\ Completed(r) => succeeded + failed = Len(P)

\* C24 witness: a finished run of two items, one added and one failed, whose
\* second onProgress call reported 2 of 2.
C24_Witness ==
  \E h \in Handlers :
    /\ Completed(run[h])
    /\ Len(run[h].results) = 2
    /\ run[h].results[1].ok
    /\ ~run[h].results[2].ok
    /\ EventsOf(run[h], "progress")[2].arg[1] = 2
    /\ EventsOf(run[h], "progress")[2].arg[2] = 2

\* The message of the error a failed request raises, by the kind of answer.
ExpectedMessage(resp) ==
  CASE ~resp.fetched -> <<"Failed to fetch">>
    [] resp = RespHttp500 -> <<"HTTP ", "500", " - ", "Internal Server Error">>
    [] resp = RespHttp429 -> <<"HTTP ", "429", " - ", "Too Many Requests">>
    [] resp = RespApiErrors -> <<"Invalid const", "; ", "Not authorized">>
    [] resp = RespApiError -> <<"Item not found">>
    [] OTHER -> <<"TypeError">>

\* The answer to the EditListItemDescription of position pos, Null when none
\* was sent.
EditedResponse(r, pos) ==
  IF Has(r, "edited", pos)
  THEN Some(r.log[CHOOSE k \in Where(r, "edited", pos) : TRUE].arg[1])
  ELSE Null

\* C25: an outcome, as reported and as returned, has ok = false exactly when
\* its error is not null; a failed outcome carries the message of the error
\* of the request that failed (the HTTP status line, or the API messages
\* joined by "; "), and an outcome none of whose requests failed is ok.
C25_ErrorIffFailed ==
  \A h \in Handlers :
    LET r == run[h]
    IN  /\ ReportedAreReturned(r)
        /\ \A k \in 1..Len(r.results) :
             LET st == r.results[k]
                 added == AddedResponse(r, k - 1)
                 edited == EditedResponse(r, k - 1)
             IN  /\ st.ok <=> st.error = Null
                 /\ IF RemoteFailure(added)
                    THEN st.error = Some(ExpectedMessage(added))
                    ELSE IF edited # Null /\ RemoteFailure(edited[1])
                    THEN st.error = Some(ExpectedMessage(edited[1]))
                    ELSE st.ok

\* C25 witness: the first outcome failed with two API errors and carries
\* their messages joined, the second failed on its description with an HTTP
\* status.
C25_Witness ==
  \E h \in Handlers :
    /\ Len(run[h].results) = 2
    /\ run[h].results[1].error = Some(<<"Invalid const", "; ", "Not authorized">>)
    /\ ~RemoteFailure(AddedResponse(run[h], 1))
    /\ run[h].results[2].error =
         Some(<<"HTTP ", "429", " - ", "Too Many Requests">>)

\* The answer confirms the add and carries no itemId.
AddedWithoutItemId(resp) ==
  /\ ~RemoteFailure(resp)
  /\ resp.item = Null \/ resp.item[1].itemId = <<>>

\* C26: for an item with a description whose AddConstToList succeeded with
\* an answer that carries no itemId, no EditListItemDescription is sent and
\* the outcome is ok with a null error.
C26_NoItemIdStillOk ==
  \A h \in Handlers :
    LET r == run[h]
    IN  \A k \in 1..Len(r.log) :
          LET pos == r.log[k].pos
          IN  (/\ r.log[k].op = "added"
               /\ AddedWithoutItemId(r.log[k].arg[1])
               /\ r.items[pos + 1].description # <<>>) =>
                /\ ~Has(r, "edit", pos)
                /\ Len(r.results) > pos
                /\ r.results[pos + 1].ok
                /\ r.results[pos + 1].error = Null

\* C26 witness: two items with descriptions, the first answered without a
\* modifiedItem and the second with one that has no itemId, both ok and no
\* description sent.
C26_Witness ==
  \E h \in Handlers :
    /\ Len(run[h].results) = 2
    /\ run[h].items[1].description # <<>>
    /\ run[h].items[2].description # <<>>
    /\ AddedResponse(run[h], 0) = RespAddedNull
    /\ AddedResponse(run[h], 1) = RespAddedNoItemId
    /\ run[h].results[1].ok
    /\ run[h].results[2].ok
    /\ EventsOf(run[h], "edit") = <<>>
====
